---------------------------- MODULE Spec2Model ----------------------------
(* Browser-side controllers of the registration site:                      *)
(*   - the S3 upload controller (src/unnamed/part_000)                       *)
(*   - the confirmation form controller (confirmation.js)                    *)
(* Each script runs on its own page; each has its own specification.        *)
EXTENDS Integers, Sequences, FiniteSets, TLC

VARIABLES
  \* ---- upload controller, one entry per '.s3.upload.form' ----
  inputs,       \* inputs[f]: the form's <input> elements in DOM order, [name, value]
  handlers,     \* handlers[f]: number of click handlers bound on the button
  text,         \* text[f]: the button's text in the page's markup
  label,        \* label[f]: the button's text, a sequence of characters
  completed,    \* completed[f]: the button has class 'completed'
  openDialogs,  \* openDialogs[f]: native file dialogs opened and not yet closed
  formData,     \* formData[f]: the widget's formData option, indices into inputs[f]
  sels,         \* one record per file selection ('add' call): its GET and its POST
  event,        \* the handler that ran last, <<name, argument>>
  \* ---- confirmation form controller ----
  fields,       \* fields[n]: the value of input #n
  formClass,    \* which of the classes 'success' / 'error' the form carries
  errors,       \* content of the form's error message block
  overlay,      \* the '.ui.dimmable' dimmer is shown
  outstanding,  \* PUT /admits requests sent and not yet answered
  lastPut,      \* JSON body of the PUT sent last, a sequence of <<key, value>>
  message,      \* the timed confirmation message is shown
  navPending,   \* a callback navigating to /dashboard is scheduled
  location,     \* location.href
  trans,        \* form states passed through by the handler that ran last
  cevent        \* the confirmation handler that ran last

uvars == <<inputs, handlers, text, label, completed, openDialogs, formData, sels, event>>
cvars == <<fields, formClass, errors, overlay, outstanding, lastPut, message,
           navPending, location, trans, cevent>>
vars == <<uvars, cvars>>

\* ------------------------------------------------------------------------
\* Bounds
\* ------------------------------------------------------------------------
MaxSel == 2
MaxInFlight == 2

\* the '.s3.upload.form' elements of the page
Forms == {1, 2}

\* ------------------------------------------------------------------------
\* Strings as character sequences (String.prototype.indexOf / replace)
\* ------------------------------------------------------------------------
UploadPrefix == <<"U","p","l","o","a","d"," ">>
UploadedSuffix == <<" ","U","p","l","o","a","d","e","d","!">>

\* s.indexOf(pat): the 0-based position of the first occurrence, or -1
IndexOf(s, pat) ==
  LET hits == {i \in 1..(Len(s) - Len(pat) + 1) :
                 SubSeq(s, i, i + Len(pat) - 1) = pat}
  IN IF hits = {} THEN -1
     ELSE (CHOOSE i \in hits : \A j \in hits : i <= j) - 1

\* faulty variant: a second occurrence is replaced as well (a /g pattern)
Replace_global(s, pat, rep) ==
  LET i == IndexOf(s, pat)
      once == IF i = -1 THEN s
              ELSE SubSeq(s, 1, i) \o rep \o SubSeq(s, i + Len(pat) + 1, Len(s))
      j == IndexOf(once, pat)
  IN IF j = -1 THEN once
     ELSE SubSeq(once, 1, j) \o rep \o SubSeq(once, j + Len(pat) + 1, Len(once))

\* s.replace(pat, rep) with a string pattern: the first occurrence only
Replace(s, pat, rep) ==
  LET i == IndexOf(s, pat)
  IN IF i = -1 THEN s
     ELSE SubSeq(s, 1, i) \o rep \o SubSeq(s, i + Len(pat) + 1, Len(s))

\* ------------------------------------------------------------------------
\* Upload controller: the page
\* ------------------------------------------------------------------------
\* An input name is a sequence of tokens; a value is <<text, request number>>.
MetaPrefix == "x-amz-meta-"
Empty == <<"", 0>>
Input(n, v) == [name |-> n, value |-> v]

BaseInputs ==
  << Input(<<"key">>, Empty),
     Input(<<"policy">>, Empty),
     Input(<<"signature">>, Empty),
     Input(<<MetaPrefix, "bucket_url">>, <<"https://bucket", 0>>),
     Input(<<MetaPrefix, "policy_endpoint">>, <<"/policy", 0>>),
     Input(<<"file">>, Empty) >>

\* further inputs a form may carry
ExtraInputs ==
  << <<>>,
     << Input(<<MetaPrefix, "uuid">>, <<"u1", 0>>) >>,
     << Input(<<"acl-", MetaPrefix, "x">>, <<"private", 0>>) >> >>

\* the button's text in the page's markup
OriginalTexts ==
  << <<"C","V">>,
     UploadPrefix \o <<"C","V">>,
     <<"M","y"," ">> \o SubSeq(UploadPrefix, 1, 6) >>

\* the markup of form f on page <<j, k>>: its further inputs and its button text
ExtraOf(j, f) == ExtraInputs[((j + f) % Len(ExtraInputs)) + 1]
TextOf(k, f) == OriginalTexts[((k + f) % Len(OriginalTexts)) + 1]

\* the policy endpoint's answer to the GET of selection s
Params(s) == [key |-> <<"key", s>>, policy |-> <<"policy", s>>,
              signature |-> <<"signature", s>>]

Range(q) == {q[i] : i \in 1..Len(q)}

\* the record of a handler that ran
Ev(name) == [name |-> name, kind |-> "", message |-> ""]

\* $.grep(array, fn, invert): the elements for which fn(e) differs from invert;
\* fn is given as the function from elements to its results
Grep(arr, fn, invert) ==
  SelectSeq(arr, LAMBDA e : fn[e] # invert)

\* faulty variant: the first filter without its invert flag (keeps only x-amz-meta-*)
getSanitizedData_keepMeta(ins) ==
  LET fullData == [i \in 1..Len(ins) |-> i]
      publicData == Grep(fullData,
                         [i \in 1..Len(ins) |->
                            IndexOf(ins[i].name, <<MetaPrefix>>) = 0], FALSE)
  IN Grep(publicData, [i \in 1..Len(ins) |-> ins[i].name = <<"file">>], TRUE)

\* getSanitizedData(form): the inputs (by position) handed to the widget as formData
getSanitizedData(ins) ==
  LET fullData == [i \in 1..Len(ins) |-> i]
      publicData == Grep(fullData,
                         [i \in 1..Len(ins) |->
                            IndexOf(ins[i].name, <<MetaPrefix>>) = 0], TRUE)
  IN Grep(publicData, [i \in 1..Len(ins) |-> ins[i].name = <<"file">>], TRUE)

\* form.find('input[name=n]').val(v)
SetVal(ins, n, v) ==
  [i \in 1..Len(ins) |-> IF ins[i].name = <<n>> THEN [ins[i] EXCEPT !.value = v]
                                                  ELSE ins[i]]

\* faulty variant: the fields are read before the policy response is written
\* into the hidden inputs
SubmitFields_stale(f, s, ins) ==
  [i \in 1..Len(formData[f]) |->
      Input(inputs[f][formData[f][i]].name, inputs[f][formData[f][i]].value)]
  \o << Input(<<"file">>, <<"file", s>>) >>

\* data.submit(): the multipart fields of the POST, the formData elements with
\* the values they hold now, then the file
SubmitFields(f, s, ins) ==
  [i \in 1..Len(formData[f]) |->
      Input(ins[formData[f][i]].name, ins[formData[f][i]].value)]
  \o << Input(<<"file">>, <<"file", s>>) >>

Sel(f) == [form |-> f, get |-> "pending", post |-> "none", posted |-> <<>>]

UInit ==
  /\ \E j \in 1..Len(ExtraInputs) :
        inputs = [f \in Forms |-> BaseInputs \o ExtraOf(j, f)]
  /\ handlers = [f \in Forms |-> 1]
  /\ \E k \in 1..Len(OriginalTexts) : text = [f \in Forms |-> TextOf(k, f)]
  /\ label = [f \in Forms |-> UploadPrefix \o text[f]]
  /\ completed = [f \in Forms |-> FALSE]
  /\ openDialogs = [f \in Forms |-> 0]
  /\ formData = [f \in Forms |-> getSanitizedData(inputs[f])]
  /\ sels = <<>>
  /\ event = <<"ready", 0>>

\* faulty variant: the file input is looked up on the whole page, not inside the form
button_click_allForms(f) ==
  /\ \A g \in Forms : openDialogs[g] = 0
  /\ openDialogs' = [g \in Forms |-> openDialogs[g] + handlers[f]]
  /\ event' = <<"click", f>>
  /\ UNCHANGED <<inputs, handlers, label, completed, formData, text, sels>>
  /\ UNCHANGED cvars

\* a click on the button of form f: every bound handler clicks the form's file
\* input, which opens the native file dialog (modal: none is open already)
button_click(f) ==
  /\ \A g \in Forms : openDialogs[g] = 0
  /\ openDialogs' = [openDialogs EXCEPT ![f] = @ + handlers[f]]
  /\ event' = <<"click", f>>
  /\ UNCHANGED <<inputs, handlers, label, completed, formData, text, sels>>
  /\ UNCHANGED cvars

\* the user closes the dialog without choosing a file
dialog_cancel(f) ==
  /\ openDialogs[f] > 0
  /\ openDialogs' = [openDialogs EXCEPT ![f] = @ - 1]
  /\ event' = <<"cancel", f>>
  /\ UNCHANGED <<inputs, handlers, label, completed, formData, text, sels>>
  /\ UNCHANGED cvars

\* faulty variant: the widget's default add, which submits at once (autoUpload)
fileupload_add_autoUpload(f) ==
  /\ openDialogs[f] > 0
  /\ Len(sels) < MaxSel
  /\ openDialogs' = [openDialogs EXCEPT ![f] = @ - 1]
  /\ sels' = Append(sels, [Sel(f) EXCEPT !.post = "sent",
                             !.posted = SubmitFields(f, Len(sels) + 1, inputs[f])])
  /\ event' = <<"add", Len(sels) + 1>>
  /\ UNCHANGED <<inputs, handlers, label, completed, formData, text>>
  /\ UNCHANGED cvars

\* faulty variant: add unbinds the button while its selection is in flight
fileupload_add_unbind(f) ==
  /\ openDialogs[f] > 0
  /\ Len(sels) < MaxSel
  /\ openDialogs' = [openDialogs EXCEPT ![f] = @ - 1]
  /\ handlers' = [handlers EXCEPT ![f] = 0]
  /\ sels' = Append(sels, Sel(f))
  /\ event' = <<"add", Len(sels) + 1>>
  /\ UNCHANGED <<inputs, label, completed, formData, text>>
  /\ UNCHANGED cvars

\* the user chooses a file in the dialog: the widget calls add, which issues
\* the policy GET of this selection
fileupload_add(f) ==
  /\ openDialogs[f] > 0
  /\ Len(sels) < MaxSel
  /\ openDialogs' = [openDialogs EXCEPT ![f] = @ - 1]
  /\ sels' = Append(sels, Sel(f))
  /\ event' = <<"add", Len(sels) + 1>>
  /\ UNCHANGED <<inputs, handlers, label, completed, formData, text>>
  /\ UNCHANGED cvars

\* the policy GET of selection s succeeds: the .done callback
policy_done(s) ==
  /\ sels[s].get = "pending"
  /\ LET f == sels[s].form
         p == Params(s)
         ins == SetVal(SetVal(SetVal(inputs[f], "key", p.key),
                              "policy", p.policy), "signature", p.signature)
     IN /\ inputs' = [inputs EXCEPT ![f] = ins]
        /\ sels' = [sels EXCEPT ![s].get = "ok", ![s].post = "sent",
                                 ![s].posted = SubmitFields(f, s, ins)]
  /\ event' = <<"policy_done", s>>
  /\ UNCHANGED <<handlers, label, completed, openDialogs, formData, text>>
  /\ UNCHANGED cvars

\* faulty variant: a failure handler that submits the upload all the same
policy_fail_submit(s) ==
  /\ sels[s].get = "pending"
  /\ sels' = [sels EXCEPT ![s].get = "failed", ![s].post = "sent",
                           ![s].posted = SubmitFields(sels[s].form, s,
                                                      inputs[sels[s].form])]
  /\ event' = <<"policy_fail", s>>
  /\ UNCHANGED <<inputs, handlers, label, completed, openDialogs, formData, text>>
  /\ UNCHANGED cvars

\* the policy GET of selection s fails: no callback is registered for it
policy_fail(s) ==
  /\ sels[s].get = "pending"
  /\ sels' = [sels EXCEPT ![s].get = "failed"]
  /\ event' = <<"policy_fail", s>>
  /\ UNCHANGED <<inputs, handlers, label, completed, openDialogs, formData, text>>
  /\ UNCHANGED cvars

\* faulty variant: the completion callback without the unbind
fileupload_done_keepHandler(s) ==
  /\ sels[s].post = "sent"
  /\ LET f == sels[s].form
     IN /\ completed' = [completed EXCEPT ![f] = TRUE]
        /\ label' = [label EXCEPT ![f] = Replace(@, UploadPrefix, <<>>)
                                            \o UploadedSuffix]
  /\ sels' = [sels EXCEPT ![s].post = "done"]
  /\ event' = <<"done", s>>
  /\ UNCHANGED <<inputs, handlers, openDialogs, formData, text>>
  /\ UNCHANGED cvars

\* the upload POST of selection s succeeds: the done callback
fileupload_done(s) ==
  /\ sels[s].post = "sent"
  /\ LET f == sels[s].form
     IN /\ completed' = [completed EXCEPT ![f] = TRUE]
        /\ handlers' = [handlers EXCEPT ![f] = 0]
        /\ label' = [label EXCEPT ![f] = Replace(@, UploadPrefix, <<>>)
                                            \o UploadedSuffix]
  /\ sels' = [sels EXCEPT ![s].post = "done"]
  /\ event' = <<"done", s>>
  /\ UNCHANGED <<inputs, openDialogs, formData, text>>
  /\ UNCHANGED cvars

\* the upload POST of selection s fails: the widget is given no fail callback
upload_fail(s) ==
  /\ sels[s].post = "sent"
  /\ sels' = [sels EXCEPT ![s].post = "failed"]
  /\ event' = <<"upload_fail", s>>
  /\ UNCHANGED <<inputs, handlers, label, completed, openDialogs, formData, text>>
  /\ UNCHANGED cvars

UNext ==
  \/ \E f \in Forms : button_click(f)
  \/ \E f \in Forms : dialog_cancel(f)
  \/ \E f \in Forms : fileupload_add(f)
  \/ \E s \in 1..Len(sels) : policy_done(s)
  \/ \E s \in 1..Len(sels) : policy_fail(s)
  \/ \E s \in 1..Len(sels) : fileupload_done(s)
  \/ \E s \in 1..Len(sels) : upload_fail(s)

\* the confirmation page is not loaded while the upload page runs
CIdle ==
  /\ fields = <<>> /\ formClass = "none" /\ errors = <<>> /\ overlay = FALSE
  /\ outstanding = 0 /\ lastPut = <<>> /\ message = FALSE /\ navPending = FALSE
  /\ location = "/upload" /\ trans = <<>> /\ cevent = Ev("none")

UploadInit == UInit /\ CIdle

UploadSpec == UploadInit /\ [][UNext]_vars

\* ------------------------------------------------------------------------
\* Confirmation form controller
\* ------------------------------------------------------------------------
FormPage == "/confirm"
Dashboard == "/dashboard"

\* the inputs read by submitConfirmation, in the order of the JSON object
FieldNames == <<"badge", "phone", "shirt", "diet", "waiver", "photoRelease">>
\* what the user may leave in input #n: nothing, or a text of that input
Typed(n) == IF n = "badge" THEN "Ada" ELSE IF n = "phone" THEN "555-0100"
            ELSE IF n = "shirt" THEN "M" ELSE IF n = "diet" THEN "vegan"
            ELSE IF n = "waiver" THEN "Ada Lovelace" ELSE "A. Lovelace"
Values(n) == {"", Typed(n)}

\* the fields and prompts, as the form's contract states them
Required == {"badge", "diet", "waiver", "photoRelease"}
PromptFor(n) ==
  IF n = "badge" THEN "Please enter the name you wanted printed on your badge!"
  ELSE IF n = "diet" THEN "Please enter a dietary restriction!"
  ELSE "Please enter your full legal name."

\* faulty variant: the rule of the waiver field is missing
Rules_noWaiver ==
  << [identifier |-> "badge",
      prompt |-> "Please enter the name you wanted printed on your badge!"],
     [identifier |-> "diet", prompt |-> "Please enter a dietary restriction!"],
     [identifier |-> "photoRelease",
      prompt |-> "Please enter your full legal name."] >>

\* the validation rules given to $form.form: identifier and prompt of each
\* 'empty' rule, in the order they are declared
Rules ==
  << [identifier |-> "badge",
      prompt |-> "Please enter the name you wanted printed on your badge!"],
     [identifier |-> "diet", prompt |-> "Please enter a dietary restriction!"],
     [identifier |-> "waiver", prompt |-> "Please enter your full legal name."],
     [identifier |-> "photoRelease",
      prompt |-> "Please enter your full legal name."] >>

\* the prompts of the rules that fail on the field values flds
FormErrors(flds) ==
  LET failing == SelectSeq(Rules, LAMBDA r : flds[r.identifier] = "")
  IN [i \in 1..Len(failing) |-> failing[i].prompt]

\* faulty variant: phone is read from the shirt input
formDataJSON_phoneFromShirt(flds) ==
  << <<"badge", flds["badge"]>>, <<"phone", flds["shirt"]>>,
     <<"shirt", flds["shirt"]>>, <<"diet", flds["diet"]>>,
     <<"waiver", flds["waiver"]>>, <<"photoRelease", flds["photoRelease"]>> >>

\* JSON.stringify({badge: ..., ...}): the members of the body, in order
formDataJSON(flds) ==
  << <<"badge", flds["badge"]>>, <<"phone", flds["phone"]>>,
     <<"shirt", flds["shirt"]>>, <<"diet", flds["diet"]>>,
     <<"waiver", flds["waiver"]>>, <<"photoRelease", flds["photoRelease"]>> >>

\* bodies of an error response: JSON with a message, JSON without one, no JSON
Messages == {"Badge required", "Server error"}
ErrorBodies ==
  {[kind |-> "json", message |-> m] : m \in Messages}
  \cup {[kind |-> "json-no-message", message |-> ""],
        [kind |-> "not-json", message |-> ""]}
Undefined == "undefined"

Cur == trans[Len(trans)]


CInit ==
  /\ fields = [n \in Range(FieldNames) |-> ""]
  /\ formClass = "none"
  /\ errors = <<>>
  /\ overlay = FALSE
  /\ outstanding = 0
  /\ lastPut = <<>>
  /\ message = FALSE
  /\ navPending = FALSE
  /\ location = FormPage
  /\ trans = <<"idle">>
  /\ cevent = Ev("ready")

\* the upload page is not loaded while the confirmation page runs
UIdle ==
  /\ inputs = <<>> /\ handlers = <<>> /\ label = <<>> /\ completed = <<>>
  /\ openDialogs = <<>> /\ formData = <<>> /\ sels = <<>> /\ event = <<"none", 0>>
  /\ text = <<>>

\* the user edits input #n
field_input(n, v) ==
  /\ location = FormPage
  /\ fields[n] # v
  /\ fields' = [fields EXCEPT ![n] = v]
  /\ cevent' = Ev("input")
  /\ UNCHANGED <<formClass, errors, overlay, outstanding, lastPut, message,
                 navPending, location, trans>>
  /\ UNCHANGED uvars

\* submitConfirmation(): serialise the fields, show the dimmer, send the PUT
submitConfirmation ==
  /\ lastPut' = formDataJSON(fields)
  /\ overlay' = TRUE
  /\ outstanding' = outstanding + 1

\* validate(), the form's onSuccess callback
validate == submitConfirmation

\* the form is submitted: the rules are checked; with a failing rule the form
\* shows the prompts, with none it is marked valid and onSuccess is called
form_submit ==
  /\ location = FormPage
  /\ IF FormErrors(fields) # <<>>
       THEN /\ formClass' = "error"
            /\ errors' = FormErrors(fields)
            /\ trans' = <<Cur, "validating", "idle-with-errors">>
            /\ UNCHANGED <<overlay, outstanding, lastPut>>
       ELSE /\ outstanding < MaxInFlight
            /\ formClass' = "success"
            /\ errors' = errors
            /\ trans' = <<Cur, "validating", "submitting">>
            /\ validate
  /\ cevent' = Ev("submit")
  /\ UNCHANGED <<fields, message, navPending, location>>
  /\ UNCHANGED uvars

\* dimmerMessage(title, subtitle, callback, delay): show the message and
\* schedule the callback
dimmerMessage ==
  /\ message' = TRUE
  /\ navPending' = TRUE

\* faulty variant: the success callback without the dimmer('hide')
ajax_success_noHide ==
  /\ location = FormPage
  /\ outstanding > 0
  /\ outstanding' = outstanding - 1
  /\ overlay' = overlay
  /\ dimmerMessage
  /\ trans' = <<Cur, "confirmed">>
  /\ cevent' = Ev("success")
  /\ UNCHANGED <<fields, formClass, errors, lastPut, location>>
  /\ UNCHANGED uvars

\* the success callback of the PUT
ajax_success ==
  /\ location = FormPage
  /\ outstanding > 0
  /\ outstanding' = outstanding - 1
  /\ overlay' = FALSE
  /\ dimmerMessage
  /\ trans' = <<Cur, "confirmed">>
  /\ cevent' = Ev("success")
  /\ UNCHANGED <<fields, formClass, errors, lastPut, location>>
  /\ UNCHANGED uvars

\* faulty variant: the message is added without switching the form to the error state
showError_noClass(error) ==
  /\ formClass' = formClass
  /\ errors' = <<error>>

\* showError(error): the form gets class 'error' and loses 'success', and the
\* error block shows the one message
showError(error) ==
  /\ formClass' = "error"
  /\ errors' = <<error>>

\* the error callback of the PUT, for a response with body b; JSON.parse
\* throws on a body that is no JSON, after the dimmer is hidden
ajax_error(b) ==
  /\ location = FormPage
  /\ outstanding > 0
  /\ outstanding' = outstanding - 1
  /\ overlay' = FALSE
  /\ IF b.kind = "not-json"
       THEN /\ UNCHANGED <<formClass, errors>>
            /\ trans' = <<Cur, "idle">>
       ELSE /\ showError(IF b.kind = "json" THEN b.message ELSE Undefined)
            /\ trans' = <<Cur, "idle-with-errors">>
  /\ cevent' = [name |-> "error", kind |-> b.kind, message |-> b.message]
  /\ UNCHANGED <<fields, lastPut, message, navPending, location>>
  /\ UNCHANGED uvars

\* the callback handed to dimmerMessage runs: location.href = "/dashboard"
navigate ==
  /\ location = FormPage
  /\ navPending
  /\ location' = Dashboard
  /\ navPending' = FALSE
  /\ cevent' = Ev("navigate")
  /\ UNCHANGED <<fields, formClass, errors, overlay, outstanding, lastPut,
                 message, trans>>
  /\ UNCHANGED uvars

CNext ==
  \/ \E n \in Range(FieldNames) : \E v \in Values(n) : field_input(n, v)
  \/ form_submit
  \/ ajax_success
  \/ \E b \in ErrorBodies : ajax_error(b)
  \/ navigate

ConfirmInit == CInit /\ UIdle

ConfirmSpec == ConfirmInit /\ [][CNext]_vars

\* ------------------------------------------------------------------------
\* Upload controller: properties
\* ------------------------------------------------------------------------
\* form.find('input[name=n]').val()
ValOf(ins, n) == ins[CHOOSE i \in 1..Len(ins) : ins[i].name = <<n>>].value

Names(q) == {q[i].name : i \in 1..Len(q)}
IsMeta(n) == Len(n) >= 1 /\ n[1] = MetaPrefix

\* C1: an upload POST is sent only once the policy GET of the same selection
\* has succeeded, and in the step that sends it the hidden fields key, policy
\* and signature hold that response; no selection has a POST while its GET is
\* pending or failed.
C1_UploadAfterPolicy ==
  [][\A s \in 1..Len(sels') :
       /\ sels'[s].post # "none" => sels'[s].get = "ok"
       /\ (sels'[s].post = "sent" /\ (s > Len(sels) \/ sels[s].post = "none"))
            => /\ s <= Len(sels) /\ sels[s].get = "pending"
               /\ ValOf(inputs'[sels'[s].form], "key") = Params(s).key
               /\ ValOf(inputs'[sels'[s].form], "policy") = Params(s).policy
               /\ ValOf(inputs'[sels'[s].form], "signature") = Params(s).signature
    ]_vars

\* an upload has been sent while another selection still waits for its policy
C1_Witness ==
  \E s, t \in 1..Len(sels) : sels[s].post = "sent" /\ sels[t].get = "pending"

\* the done callback has run for form f
DoneRan(q, f) == \E s \in 1..Len(q) : q[s].form = f /\ q[s].post = "done"

\* C6: once the done callback of a form has run, its button has no click
\* handler, and a later click on it opens no file dialog and starts no policy
\* GET.
C6_OneShot ==
  [][\A f \in Forms :
       /\ DoneRan(sels', f) => handlers'[f] = 0
       /\ (DoneRan(sels, f) /\ event' = <<"click", f>>)
            => /\ openDialogs' = openDialogs
               /\ sels' = sels
    ]_vars

\* a click on the button of a form whose upload has completed
C6_Witness ==
  \E f \in Forms : DoneRan(sels, f) /\ event = <<"click", f>> /\ completed[f]

\* C7 as stated: the POST carries key, policy, signature, file and every
\* x-amz-meta-* input of the form.
C7_MetaFieldsSent ==
  \A s \in 1..Len(sels) :
    sels[s].post # "none" =>
      Names(sels[s].posted) =
        {<<"key">>, <<"policy">>, <<"signature">>, <<"file">>}
        \cup {n \in Names(inputs[sels[s].form]) : IsMeta(n)}

\* C7 amended: the POST carries the file and every input of the form whose
\* name neither starts with x-amz-meta- nor is "file" (key, policy and
\* signature among them); no x-amz-meta-* input is sent.
C7_MetaFieldsExcluded ==
  \A s \in 1..Len(sels) :
    sels[s].post # "none" =>
      /\ Names(sels[s].posted) =
           {n \in Names(inputs[sels[s].form]) : ~IsMeta(n)} \cup {<<"file">>}
      /\ {<<"key">>, <<"policy">>, <<"signature">>} \subseteq Names(sels[s].posted)
      /\ \A n \in Names(sels[s].posted) : ~IsMeta(n)
      /\ Len(sels[s].posted) = Cardinality(Names(sels[s].posted))

\* a POST was sent from a form that carries a further x-amz-meta-* input
C7_Witness ==
  \E s \in 1..Len(sels) :
    /\ sels[s].post # "none"
    /\ <<MetaPrefix, "uuid">> \in Names(inputs[sels[s].form])

\* C8: while the handler is bound, a click on the button of form f opens
\* exactly one file dialog, on form f, and none on any other form.
C8_OneDialogPerClick ==
  [][\A f \in Forms :
       (event' = <<"click", f>> /\ handlers[f] > 0)
         => openDialogs' = [openDialogs EXCEPT ![f] = @ + 1]
    ]_vars

\* a click with the handler bound has opened the dialog of the second form
C8_Witness ==
  event = <<"click", 2>> /\ handlers[2] > 0 /\ openDialogs[2] = 1

\* C9: a failed policy GET sends no upload, is not retried and changes
\* nothing of the control; a failed upload is not retried and does not mark
\* the control completed.
C9_FailuresAreSilent ==
  [][\A s \in 1..Len(sels) :
       /\ (sels[s].get = "pending" /\ sels'[s].get = "failed")
            => /\ UNCHANGED <<inputs, label, completed, handlers, openDialogs>>
               /\ Len(sels') = Len(sels)
               /\ \A t \in 1..Len(sels) : sels'[t].post = sels[t].post
       /\ sels[s].get = "failed"
            => sels'[s].get = "failed" /\ sels'[s].post = "none"
       /\ (sels[s].post = "sent" /\ sels'[s].post = "failed")
            => /\ UNCHANGED <<inputs, label, completed, handlers, openDialogs>>
               /\ Len(sels') = Len(sels)
               /\ \A t \in 1..Len(sels) : sels'[t].get = sels[t].get
       /\ sels[s].post = "failed" => sels'[s].post = "failed"
    ]_vars

\* one policy GET and one upload POST have failed, nothing completed
C9_Witness ==
  /\ \E s \in 1..Len(sels) : sels[s].get = "failed"
  /\ \E t \in 1..Len(sels) : sels[t].post = "failed"
  /\ \A f \in Forms : ~completed[f]

\* ------------------------------------------------------------------------
\* Confirmation form controller: properties
\* ------------------------------------------------------------------------
\* C2: a submission with an empty required field issues no PUT, shows the
\* prompt of each empty required field, and neither shows the overlay nor
\* navigates.
C2_InvalidSendsNothing ==
  [][(cevent'.name = "submit" /\ \E n \in Required : fields[n] = "")
       => /\ outstanding' = outstanding
          /\ lastPut' = lastPut
          /\ formClass' = "error"
          /\ \A n \in Required : fields[n] = "" => PromptFor(n) \in Range(errors')
          /\ Len(errors') = Cardinality({n \in Required : fields[n] = ""})
          /\ overlay' = overlay
          /\ outstanding = 0 => ~overlay'
          /\ location' = FormPage
          /\ UNCHANGED <<navPending, message, fields>>
    ]_vars

\* a submission with waiver and photoRelease empty and the rest filled in
C2_Witness ==
  /\ cevent.name = "submit"
  /\ fields["waiver"] = "" /\ fields["photoRelease"] = ""
  /\ fields["badge"] # "" /\ fields["diet"] # ""
  /\ Len(errors) = 2 /\ formClass = "error"

\* C3: a submission with the four required fields filled in issues exactly
\* one PUT, whose body has exactly the keys badge, phone, shirt, diet, waiver,
\* photoRelease, each with the value of the same-named field.
C3_ValidSendsOnePut ==
  [][(cevent'.name = "submit" /\ \A n \in Required : fields[n] # "")
       => /\ outstanding' = outstanding + 1
          /\ Len(lastPut') = Len(FieldNames)
          /\ {lastPut'[i][1] : i \in 1..Len(lastPut')} = Range(FieldNames)
          /\ \A i \in 1..Len(lastPut') : lastPut'[i][2] = fields[lastPut'[i][1]]
    ]_vars

\* a PUT was sent with phone empty and shirt filled in
C3_Witness ==
  /\ cevent.name = "submit" /\ outstanding = 1
  /\ \A n \in Required : fields[n] # ""
  /\ fields["phone"] = "" /\ fields["shirt"] # ""
  /\ lastPut # <<>>

\* C4: the success callback hides the overlay and shows the message in the
\* step that handles the response and does not navigate in that step;
\* /dashboard is reached only by the scheduled callback, after the message
\* of a succeeded PUT has been shown.
C4_SuccessThenNavigate ==
  [][/\ cevent'.name = "success"
          => ~overlay' /\ message' /\ navPending' /\ location' = FormPage
     /\ (location' = Dashboard /\ location # Dashboard)
          => message /\ navPending /\ cevent'.name = "navigate"
     /\ ~message' => (~navPending' /\ location' = FormPage)
    ]_vars

\* the page has navigated to /dashboard
C4_Witness == location = Dashboard /\ message /\ ~overlay

\* C5: an error response whose body is JSON with a message hides the
\* overlay, puts the form in the error state showing exactly that message,
\* and does not navigate.
C5_ErrorMessageShown ==
  [][(cevent'.name = "error" /\ cevent'.kind = "json")
       => /\ ~overlay'
          /\ formClass' = "error"
          /\ errors' = <<cevent'.message>>
          /\ location' = FormPage
          /\ UNCHANGED <<navPending, message>>
    ]_vars

\* the form shows the message of an error response
C5_Witness ==
  /\ cevent.name = "error" /\ cevent.kind = "json"
  /\ cevent.message = "Badge required"
  /\ errors = <<"Badge required">> /\ formClass = "error"

\* the transitions of the stated state machine
AllowedTransitions ==
  { <<"idle", "validating">>, <<"idle-with-errors", "validating">>,
    <<"validating", "idle-with-errors">>, <<"validating", "submitting">>,
    <<"submitting", "confirmed">>, <<"submitting", "idle-with-errors">> }

\* C10: every transition the form makes is one of the stated state machine.
C10_StateMachine ==
  \A i \in 1..(Len(trans) - 1) : <<trans[i], trans[i + 1]>> \in AllowedTransitions

\* ------------------------------------------------------------------------
\* Upload controller: concurrent selections and the label
\* ------------------------------------------------------------------------
\* C11: the click handler is removed only by the done callback; until the
\* first upload of a form has completed its handler is bound, whatever is in
\* flight, and a click opens the file dialog, from which a further selection
\* starts its own policy GET.
C11_ClickableWhileInFlight ==
  [][\A f \in Forms :
       /\ handlers'[f] # handlers[f]
            => \E s \in 1..Len(sels) :
                 /\ event' = <<"done", s>> /\ sels[s].form = f
                 /\ sels[s].post = "sent" /\ sels'[s].post = "done"
       /\ ~DoneRan(sels', f) => handlers'[f] = 1
       /\ (~DoneRan(sels, f) /\ event' = <<"click", f>>)
            => openDialogs'[f] = openDialogs[f] + 1
       /\ (~DoneRan(sels, f) /\ event' = <<"add", Len(sels) + 1>>
             /\ Len(sels') = Len(sels) + 1 /\ sels'[Len(sels')].form = f)
            => sels'[Len(sels')].get = "pending"
    ]_vars

\* a second selection of a form has its policy GET pending while the upload
\* of the first is in flight, and the button can still be clicked
C11_Witness ==
  \E f \in Forms : \E s, t \in 1..Len(sels) :
    /\ s < t /\ sels[s].form = f /\ sels[t].form = f
    /\ sels[s].post = "sent" /\ sels[t].get = "pending"
    /\ handlers[f] = 1 /\ ~completed[f]

\* the number of done callbacks that have run for form f
DoneCount(f) ==
  Cardinality({s \in 1..Len(sels) : sels[s].form = f /\ sels[s].post = "done"})

\* C13: the label is "Upload " + T after initialisation and until an upload
\* completes, and after the first completion the button has class
\* 'completed' and the label is exactly T + " Uploaded!", for every markup
\* text T.
C13_LabelRoundTrip ==
  \A f \in Forms :
    /\ DoneCount(f) = 0 => (label[f] = UploadPrefix \o text[f] /\ ~completed[f])
    /\ DoneCount(f) = 1 => (label[f] = text[f] \o UploadedSuffix /\ completed[f])

\* the first upload has completed on a button whose markup text itself
\* contains "Upload "
C13_Witness ==
  \E f \in Forms :
    /\ DoneCount(f) = 1
    /\ IndexOf(text[f], UploadPrefix) = 0
    /\ label[f] = text[f] \o UploadedSuffix

\* C14: whatever has happened, the label is "Upload " + T while no upload of
\* the form has completed and T + " Uploaded!" once at least one has.
C14_DoneIdempotent ==
  \A f \in Forms :
    /\ DoneCount(f) = 0 => label[f] = UploadPrefix \o text[f]
    /\ DoneCount(f) >= 1 => label[f] = text[f] \o UploadedSuffix

\* the value a sent POST carries under input name n
PostedVal(s, n) == ValOf(sels[s].posted, n)

\* C15: every upload POST carries, under key, policy and signature, the
\* values the policy endpoint returned to the GET of the same selection.
C15_OwnTriple ==
  \A s \in 1..Len(sels) :
    sels[s].post # "none" =>
      /\ PostedVal(s, "key") = Params(s).key
      /\ PostedVal(s, "policy") = Params(s).policy
      /\ PostedVal(s, "signature") = Params(s).signature

\* two selections of one form were in flight together and the policy
\* response of the later one arrived first; both uploads have been sent
C15_Witness ==
  \E s, t \in 1..Len(sels) :
    /\ s < t /\ sels[s].form = sels[t].form
    /\ event = <<"policy_done", s>>
    /\ sels[s].post = "sent" /\ sels[t].post # "none"

\* ------------------------------------------------------------------------
\* Confirmation form controller: failures and the overlay
\* ------------------------------------------------------------------------
\* C12: every error response, whatever its body, hides the overlay and leaves
\* the form in the error state showing a single message.
C12_EveryFailureShowsError ==
  [][cevent'.name = "error"
       => ~overlay' /\ formClass' = "error" /\ Len(errors') = 1
    ]_vars

\* C16: while the page is up, the overlay is shown exactly while a PUT is
\* outstanding.
C16_OverlayWhileInFlight ==
  location = FormPage => (overlay <=> outstanding > 0)

=============================================================================
